---- MODULE Spec2Model ----
(***************************************************************************)
(* A model of app.py: the password-gated Streamlit dashboard that loads    *)
(* the system_log table, filters it by time, computes statistics and       *)
(* alert counts against the session thresholds, highlights alerting cells  *)
(* and serialises a report to a hand-built PDF.                            *)
(*                                                                         *)
(* Every execution of the script (one Streamlit run, including the rerun   *)
(* that st.rerun() triggers) is one action.  The pure functions of the     *)
(* file are operators; the specifications SpecFilter, SpecStats and        *)
(* SpecPdf apply them to inputs drawn from bounded sets.                   *)
(***************************************************************************)
EXTENDS Integers, Sequences, FiniteSets, TLC

VARIABLES
  logged_in,  \* st.session_state.logged_in
  thr,        \* st.session_state.thr, the dict cpu/memory/disk -> threshold
  event,      \* the widget inputs that triggered the last run of the script
  db,         \* the file log.db and its table system_log
  cache,      \* the st.cache_data entry of load_df
  view,       \* what the last run of the script put on the page
  input,      \* argument of a pure function under test
  output      \* its result

vars == <<logged_in, thr, event, db, cache, view, input, output>>

-----------------------------------------------------------------------------
(* Bounds of the model *)

MaxRows == 3       \* rows of a table
MaxDay == 1        \* stored timestamps lie on the days 0..MaxDay
TicksPerSec == 2   \* resolution of time: ticks per second
SliderStep == 50   \* the sliders are moved to multiples of SliderStep
MaxLines == 2      \* lines handed to pdf_bytes
MaxLineLen == 2    \* characters of one line

(* Program constants *)

SecondsPerDay == 86400
DefaultCpu == 80
DefaultMemory == 85
DefaultDisk == 90
TailRows == 10

Day == SecondsPerDay * TicksPerSec

Metrics == <<"cpu", "memory", "disk">>
MetricSet == {Metrics[i] : i \in 1..Len(Metrics)}

-----------------------------------------------------------------------------
(* Values.  A cell of a table is a number, NaN/NaT, None, or a text that   *)
(* is no number.  A float is an exact fraction n/d in lowest terms.        *)

Num(v) == [k |-> "num", v |-> v]
NaN == [k |-> "nan", v |-> 0]
None == [k |-> "none", v |-> 0]
Text == [k |-> "text", v |-> 0]
Iso(t) == [k |-> "iso", v |-> t]   \* a stored timestamp string denoting tick t

IsMissing(c) == c.k \in {"nan", "none"}

RECURSIVE Gcd(_, _)
Gcd(a, b) == IF b = 0 THEN a ELSE Gcd(b, a % b)

Float(n, d) == LET g == Gcd(n, d) IN [k |-> "num", n |-> n \div g, d |-> d \div g]
FloatNaN == [k |-> "nan", n |-> 0, d |-> 1]
Zero == Float(0, 1)

EmptyDF == [cols |-> {}, rows |-> <<>>]
IsEmpty(df) == df.rows = <<>> \/ df.cols = {}

RowsOf(df) == 1..Len(df.rows)

-----------------------------------------------------------------------------
(* load_df *)

\* The dtype pandas infers for a fetched column: a column holding a text, or
\* nothing but NULLs, stays an object column and keeps None for NULL; a
\* numeric column with NULLs becomes float64 with NaN.
ObjectColumn(rows, c) ==
  \/ \E i \in 1..Len(rows) : rows[i][c].k = "text"
  \/ \A i \in 1..Len(rows) : rows[i][c].k = "none"

ReadSql(table) ==
  [cols |-> table.cols,
   rows |-> [i \in 1..Len(table.rows) |->
              [c \in table.cols |->
                 LET x == table.rows[i][c]
                 IN IF x.k = "none" /\ ~ObjectColumn(table.rows, c) THEN NaN ELSE x]]]

\* pd.to_datetime(errors="coerce")
ToDatetime(x) == IF x.k = "iso" THEN Num(x.v) ELSE NaN

LoadDf(d) ==
  IF ~d.file THEN EmptyDF
  ELSE IF ~d.table THEN EmptyDF
  ELSE LET df == ReadSql(d)
       IN [cols |-> df.cols,
           rows |-> [i \in 1..Len(df.rows) |->
                      [c \in df.cols |->
                         IF c = "timestamp" THEN ToDatetime(df.rows[i][c])
                         ELSE df.rows[i][c]]]]

\* @st.cache_data: the cached value, or the value loaded now
CachedLoad == IF cache.valid THEN cache.df ELSE LoadDf(db)

-----------------------------------------------------------------------------
(* stats_for *)

MetricCols(df) == {k \in MetricSet : k \in df.cols /\ Len(df.rows) > 0}

\* Series.mean/max/min raise a TypeError on a column that holds a text
StatsRaises(df) ==
  \E k \in MetricCols(df) : \E i \in RowsOf(df) : df.rows[i][k].k = "text"

RECURSIVE SumCol(_, _, _)
SumCol(rows, k, n) ==
  IF n = 0 THEN 0
  ELSE SumCol(rows, k, n - 1) + (IF rows[n][k].k = "num" THEN rows[n][k].v ELSE 0)

RECURSIVE CountCol(_, _, _)
CountCol(rows, k, n) ==
  IF n = 0 THEN 0
  ELSE CountCol(rows, k, n - 1) + (IF rows[n][k].k = "num" THEN 1 ELSE 0)

ColMeanCountsMissing(df, k) ==
  IF CountCol(df.rows, k, Len(df.rows)) = 0 THEN FloatNaN
  ELSE Float(SumCol(df.rows, k, Len(df.rows)), Len(df.rows))

\* df[k].mean(), skipna: NaN when no value is present
ColMean(df, k) ==
  LET n == CountCol(df.rows, k, Len(df.rows))
  IN IF n = 0 THEN FloatNaN ELSE Float(SumCol(df.rows, k, Len(df.rows)), n)

RECURSIVE ColFold(_, _, _, _)
ColFold(rows, k, n, max) ==
  IF n = 0 THEN FloatNaN
  ELSE LET rest == ColFold(rows, k, n - 1, max)
           x == rows[n][k]
       IN IF x.k # "num" THEN rest
          ELSE IF rest.k = "nan" THEN Float(x.v, 1)
          ELSE IF max THEN (IF x.v > rest.n THEN Float(x.v, 1) ELSE rest)
          ELSE (IF x.v < rest.n THEN Float(x.v, 1) ELSE rest)

\* df[k].max() and df[k].min(), skipna
ColMax(df, k) == ColFold(df.rows, k, Len(df.rows), TRUE)
ColMin(df, k) == ColFold(df.rows, k, Len(df.rows), FALSE)

StatsFor(df) ==
  [k \in MetricSet |->
     IF k \in df.cols /\ Len(df.rows) > 0
     THEN <<ColMean(df, k), ColMax(df, k), ColMin(df, k)>>
     ELSE <<Zero, Zero, Zero>>]

-----------------------------------------------------------------------------
(* the alert counts of page_analysis: int((df_f[k] > t[k]).sum()) *)

\* a comparison of an object column with a number raises on a text
CompareRaises(df, k) ==
  k \in df.cols /\ \E i \in RowsOf(df) : df.rows[i][k].k = "text"

GreaterOrEqual(x, t) == x.k = "num" /\ x.v >= t

\* one element of the boolean series df[k] > t: false for NaN and None
Greater(x, t) == x.k = "num" /\ x.v > t

RECURSIVE SumGreater(_, _, _, _)
SumGreater(rows, k, t, n) ==
  IF n = 0 THEN 0
  ELSE SumGreater(rows, k, t, n - 1) + (IF Greater(rows[n][k], t) THEN 1 ELSE 0)

AlertCount(df, t, k) ==
  IF k \in df.cols THEN SumGreater(df.rows, k, t[k], Len(df.rows)) ELSE 0

AlertCounts(df, t) == [k \in MetricSet |-> AlertCount(df, t, k)]

-----------------------------------------------------------------------------
(* highlight_alerts *)

AlertStyle == "background-color:#ffd6d6"
NoStyle == ""

\* float(x) raises a ValueError on a text and a TypeError on None
FloatRaises(x) == x.k \in {"text", "none"}

StyleCellAtLeast(col, x, t) ==
  IF col \in MetricSet
  THEN IF FloatRaises(x) THEN NoStyle
       ELSE IF x.k = "num" /\ x.v >= t[col] THEN AlertStyle ELSE NoStyle
  ELSE NoStyle

\* one pass of the loop of _style; NaN > t is false
StyleCell(col, x, t) ==
  IF col \in MetricSet
  THEN IF FloatRaises(x) THEN NoStyle
       ELSE IF x.k = "num" /\ x.v > t[col] THEN AlertStyle ELSE NoStyle
  ELSE NoStyle

TailDf(df, n) ==
  [cols |-> df.cols,
   rows |-> IF Len(df.rows) <= n THEN df.rows
            ELSE SubSeq(df.rows, Len(df.rows) - n + 1, Len(df.rows))]

HighlightAlerts(df, t) ==
  [i \in 1..Len(df.rows) |-> [c \in df.cols |-> StyleCell(c, df.rows[i][c], t)]]

-----------------------------------------------------------------------------
(* time_filter_ui *)

Choices == {"All", "7 days", "14 days", "30 days", "90 days", "Custom"}

\* int(choice.split()[0])
DaysOf(choice) ==
  CASE choice = "7 days" -> 7
    [] choice = "14 days" -> 14
    [] choice = "30 days" -> 30
    [] choice = "90 days" -> 90

Label(text, a, b) == [text |-> text, a |-> a, b |-> b]

\* df.dropna(subset=["timestamp"])
DropNaT(df) ==
  [cols |-> df.cols, rows |-> SelectSeq(df.rows, LAMBDA r : r["timestamp"].k = "num")]

\* Timestamp.date(), as a day number
DateOf(t) == t \div Day

RECURSIVE FoldTs(_, _, _)
FoldTs(rows, n, max) ==
  IF n = 1 THEN rows[1]["timestamp"].v
  ELSE LET rest == FoldTs(rows, n - 1, max)
           x == rows[n]["timestamp"].v
       IN IF max THEN (IF x > rest THEN x ELSE rest) ELSE (IF x < rest THEN x ELSE rest)

\* df2["timestamp"].min() and .max(), df2 without NaT and not empty
MinTs(df2) == FoldTs(df2.rows, Len(df2.rows), FALSE)
MaxTs(df2) == FoldTs(df2.rows, Len(df2.rows), TRUE)

\* the dates the two date_input widgets accept: min_value..max_value
DateRange(df) ==
  IF "timestamp" \notin df.cols \/ IsEmpty(DropNaT(df)) THEN {0}
  ELSE DateOf(MinTs(DropNaT(df)))..DateOf(MaxTs(DropNaT(df)))

CustomEndWholeDay(end) == end * Day + Day

\* pd.Timestamp(end) + pd.Timedelta(days=1) - pd.Timedelta(seconds=1)
CustomEnd(end) == end * Day + Day - TicksPerSec

CutoffDayLate(nw, days) == nw - (days - 1) * Day

\* pd.Timestamp.now(tz=None) - pd.Timedelta(days=days)
Cutoff(nw, days) == nw - days * Day

TimeFilter(df, choice, start, end, nw) ==
  IF "timestamp" \notin df.cols THEN [df |-> df, label |-> Label("All", 0, 0)]
  ELSE LET df2 == DropNaT(df)
       IN IF IsEmpty(df2) THEN [df |-> df, label |-> Label("All", 0, 0)]
          ELSE IF choice = "All" THEN [df |-> df2, label |-> Label("All", 0, 0)]
          ELSE IF choice = "Custom"
          THEN [df |-> [cols |-> df2.cols,
                        rows |-> SelectSeq(df2.rows,
                                   LAMBDA r : /\ r["timestamp"].v >= start * Day
                                              /\ r["timestamp"].v <= CustomEnd(end))],
                label |-> Label("Custom", start, end)]
          ELSE [df |-> [cols |-> df2.cols,
                        rows |-> SelectSeq(df2.rows,
                                   LAMBDA r : r["timestamp"].v >= Cutoff(nw, DaysOf(choice)))],
                label |-> Label("Last days", DaysOf(choice), 0)]

-----------------------------------------------------------------------------
(* The pages.  A page is the record of what one run of the script shows.   *)

\* page_dashboard.  The KPI row calls float(latest.get(k, 0)), which raises
\* on a text and on None; the exception ends the run.
DashboardRaises(df) ==
  \E k \in MetricSet \cap df.cols : FloatRaises(df.rows[Len(df.rows)][k])

PageDashboard(df, t) ==
  IF IsEmpty(df) THEN [page |-> "Dashboard", state |-> "no_data"]
  ELSE IF DashboardRaises(df) THEN [page |-> "Dashboard", state |-> "exception"]
  ELSE LET latest == df.rows[Len(df.rows)]
       IN [page |-> "Dashboard", state |-> "ok",
           status |-> [k \in MetricSet |->
                         IF k \notin df.cols THEN "missing_column"
                         ELSE IF Greater(latest[k], t[k]) THEN "error" ELSE "success"],
           thr |-> t,
           shown |-> TailDf(df, TailRows),
           styles |-> HighlightAlerts(TailDf(df, TailRows), t)]

\* the lines of the PDF report, as the values formatted into them
ReportOf(f, t) ==
  [made |-> TRUE, label |-> f.label, rows |-> Len(f.df.rows),
   range |-> IF "timestamp" \in f.df.cols
             THEN <<ColFold(f.df.rows, "timestamp", Len(f.df.rows), FALSE),
                    ColFold(f.df.rows, "timestamp", Len(f.df.rows), TRUE)>>
             ELSE <<>>,
   stats |-> StatsFor(f.df), thr |-> t, alerts |-> AlertCounts(f.df, t)]

NoReport == [made |-> FALSE]

AnalysisBody(f, t, genPdf) ==
  IF StatsRaises(f.df) \/ \E k \in MetricSet : CompareRaises(f.df, k)
  THEN [page |-> "Analysis", state |-> "exception", label |-> f.label, rows |-> Len(f.df.rows)]
  ELSE [page |-> "Analysis", state |-> "ok", label |-> f.label, rows |-> Len(f.df.rows),
        filtered |-> f.df,
        stats |-> StatsFor(f.df),
        alerts |-> AlertCounts(f.df, t),
        thr |-> t,
        styles |-> HighlightAlerts(TailDf(f.df, TailRows), t),
        csv |-> f.df,
        report |-> IF genPdf THEN ReportOf(f, t) ELSE NoReport]

PageAnalysisNoReturn(df, t, choice, start, end, nw, genPdf) ==
  IF IsEmpty(df) THEN [page |-> "Analysis", state |-> "no_data"]
  ELSE AnalysisBody(TimeFilter(df, choice, start, end, nw), t, genPdf)

\* page_analysis
PageAnalysis(df, t, choice, start, end, nw, genPdf) ==
  IF IsEmpty(df) THEN [page |-> "Analysis", state |-> "no_data"]
  ELSE LET f == TimeFilter(df, choice, start, end, nw)
       IN IF IsEmpty(f.df)
          THEN [page |-> "Analysis", state |-> "empty_result", label |-> f.label, rows |-> 0]
          ELSE AnalysisBody(f, t, genPdf)

-----------------------------------------------------------------------------
(* Session defaults, widgets and the runs of the script *)

Defaults == [cpu |-> DefaultCpu, memory |-> DefaultMemory, disk |-> DefaultDisk]

\* the positions the three sliders (0..100) are moved to
SliderVals ==
  {v \in 0..100 : v % SliderStep = 0} \cup {DefaultCpu, DefaultMemory, DefaultDisk}

\* the instants at which pd.Timestamp.now() is read
NowSamples == {n * Day + Day - TicksPerSec : n \in {7, 90}}

NoWindow == [choice |-> "none", start |-> 0, end |-> 0, now |-> 0]

\* the values of the selectbox, the two date inputs and the clock; the
\* widgets exist only when the table has a valid timestamp
WindowInputs(df) ==
  IF IsEmpty(df) \/ "timestamp" \notin df.cols \/ IsEmpty(DropNaT(df)) THEN {NoWindow}
  ELSE {[choice |-> "All", start |-> 0, end |-> 0, now |-> 0]}
       \cup {[choice |-> c, start |-> 0, end |-> 0, now |-> n] :
               c \in Choices \ {"All", "Custom"}, n \in NowSamples}
       \cup {[choice |-> "Custom", start |-> a, end |-> b, now |-> 0] :
               a \in DateRange(df), b \in DateRange(df)}

Event(kind, save, w) == [kind |-> kind, save |-> save, w |-> w]
LoginPage(state) == [page |-> "Login", state |-> state]
Cached(df) == [valid |-> TRUE, df |-> df]

\* login(), and on success the rerun, which shows the Dashboard
Login(u, p) ==
  /\ ~logged_in
  /\ event' = Event("login", FALSE, NoWindow)
  /\ IF u = "admin" /\ p = "admin123"
     THEN /\ logged_in' = TRUE
          /\ cache' = Cached(CachedLoad)
          /\ view' = PageDashboard(CachedLoad, thr)
     ELSE /\ view' = LoginPage("invalid")
          /\ UNCHANGED <<logged_in, cache>>
  /\ UNCHANGED <<thr, db, input, output>>

\* a run with the radio on "Dashboard"
RunDashboard ==
  /\ logged_in
  /\ event' = Event("dashboard", FALSE, NoWindow)
  /\ cache' = Cached(CachedLoad)
  /\ view' = PageDashboard(CachedLoad, thr)
  /\ UNCHANGED <<logged_in, thr, db, input, output>>

\* page_config: t is st.session_state.thr itself, and what each slider
\* returns is assigned into it; Save assigns t to st.session_state.thr again
ConfigThr(sliders, save) == sliders

\* a run with the radio on "Configuration"; sliders is what the three
\* sliders return
RunConfig(sliders, save) ==
  /\ logged_in
  /\ event' = Event("config", save, NoWindow)
  /\ cache' = Cached(CachedLoad)
  /\ thr' = ConfigThr(sliders, save)
  /\ view' = [page |-> "Configuration", state |-> IF save THEN "saved" ELSE "ok",
              sliders |-> sliders]
  /\ UNCHANGED <<logged_in, db, input, output>>

\* a run with the radio on "Log Analysis & Report"
RunAnalysis(w, genPdf) ==
  /\ logged_in
  /\ event' = Event("analysis", FALSE, w)
  /\ cache' = Cached(CachedLoad)
  /\ view' = PageAnalysis(CachedLoad, thr, w.choice, w.start, w.end, w.now, genPdf)
  /\ UNCHANGED <<logged_in, thr, db, input, output>>

\* a run with the radio on "Logout": do_logout, and the rerun shows the login
Logout ==
  /\ logged_in
  /\ event' = Event("logout", FALSE, NoWindow)
  /\ cache' = Cached(CachedLoad)
  /\ logged_in' = FALSE
  /\ view' = LoginPage("ok")
  /\ UNCHANGED <<thr, db, input, output>>

\* the Refresh Data button: st.cache_data.clear(), and the rerun shows the
\* page of the radio again, with the widgets as they were
RefreshData ==
  /\ logged_in
  /\ event' = Event("refresh", FALSE, event.w)
  /\ cache' = Cached(LoadDf(db))
  /\ view' = CASE view.page = "Dashboard" -> PageDashboard(LoadDf(db), thr)
               [] view.page = "Configuration" ->
                    [page |-> "Configuration", state |-> "ok", sliders |-> thr]
               [] view.page = "Analysis" ->
                    PageAnalysis(LoadDf(db), thr, event.w.choice, event.w.start,
                                 event.w.end, event.w.now, FALSE)
  /\ thr' = IF view.page = "Configuration" THEN ConfigThr(thr, FALSE) ELSE thr
  /\ UNCHANGED <<logged_in, db, input, output>>

DoLogin == \E u \in {"admin", "guest"}, p \in {"admin123", "admin"} : Login(u, p)
\* a slider that is not moved returns int(t[k]); one move of a slider, or one
\* click, starts one run
DoConfig ==
  \E k \in MetricSet, v \in SliderVals, save \in BOOLEAN :
     RunConfig([thr EXCEPT ![k] = v], save)
DoAnalysis ==
  \E genPdf \in BOOLEAN : \E w \in WindowInputs(CachedLoad) : RunAnalysis(w, genPdf)

Next == DoLogin \/ RunDashboard \/ DoConfig \/ DoAnalysis \/ RefreshData \/ Logout

-----------------------------------------------------------------------------
(* Stored tables *)

Table(cols, rows) == [file |-> TRUE, table |-> TRUE, cols |-> cols, rows |-> rows]
NoFile == [file |-> FALSE, table |-> FALSE, cols |-> {}, rows |-> <<>>]
NoTable == [file |-> TRUE, table |-> FALSE, cols |-> {}, rows |-> <<>>]

Row(ts, cpu, memory, disk) ==
  [c \in {"timestamp", "cpu", "memory", "disk"} |->
     CASE c = "timestamp" -> ts [] c = "cpu" -> cpu [] c = "memory" -> memory
       [] c = "disk" -> disk]

SeqsUpTo(S, n) == UNION {[1..m -> S] : m \in 0..n}

Idle == [fn |-> "none"]

\* the session of one user, on a store of two readings or on no store
SessionDbs ==
  {NoFile,
   Table({"timestamp", "cpu", "memory", "disk"},
         <<Row(Iso(0), Num(80), Num(90), Num(90)),
           Row(Iso(Day), Num(90), Num(80), None)>>)}

SessionInit ==
  /\ logged_in = FALSE
  /\ thr = Defaults
  /\ event = Event("start", FALSE, NoWindow)
  /\ db \in SessionDbs
  /\ cache = [valid |-> FALSE, df |-> EmptyDF]
  /\ view = LoginPage("ok")
  /\ input = Idle
  /\ output = Idle

SpecSession == SessionInit /\ [][Next]_vars

-----------------------------------------------------------------------------
(* The pages over stored tables with unparseable and missing cells *)

PipelineRows ==
  {Row(Iso(0), Num(90), Num(90), Num(90)), Row(Iso(Day), Num(90), Num(90), Num(90)),
   Row(Text, Num(90), Num(90), Num(90)), Row(Iso(0), Text, Num(90), Num(90))}

PipelineDbs ==
  {NoFile, NoTable}
  \cup {Table({"timestamp", "cpu", "memory", "disk"}, rows) :
          rows \in SeqsUpTo(PipelineRows, MaxRows)}

PipelineInit ==
  /\ logged_in = FALSE
  /\ thr = Defaults
  /\ event = Event("start", FALSE, NoWindow)
  /\ db \in PipelineDbs
  /\ cache = [valid |-> FALSE, df |-> EmptyDF]
  /\ view = LoginPage("ok")
  /\ input = Idle
  /\ output = Idle

PipelineNext == DoLogin \/ RunDashboard \/ DoAnalysis \/ RefreshData \/ Logout

SpecPipeline == PipelineInit /\ [][PipelineNext]_vars

-----------------------------------------------------------------------------
(* The functions of the file applied to tables drawn from bounded sets *)

FunctionInit(tables, thresholds) ==
  /\ logged_in = FALSE
  /\ thr \in thresholds
  /\ event = Event("start", FALSE, NoWindow)
  /\ db = NoFile
  /\ cache = [valid |-> FALSE, df |-> EmptyDF]
  /\ view = LoginPage("ok")
  /\ input \in {[df |-> LoadDf(t)] : t \in tables}
  /\ output = Idle

Frame == UNCHANGED <<logged_in, thr, event, db, cache, view, input>>

CallTimeFilter(w) ==
  /\ output = Idle
  /\ output' = [fn |-> "time_filter_ui", w |-> w,
                val |-> TimeFilter(input.df, w.choice, w.start, w.end, w.now)]
  /\ Frame

CallStatsFor ==
  /\ output = Idle
  /\ output' = [fn |-> "stats_for", raised |-> StatsRaises(input.df),
                val |-> IF StatsRaises(input.df) THEN <<>> ELSE StatsFor(input.df)]
  /\ Frame

CallHighlightAlerts ==
  /\ output = Idle
  /\ output' = [fn |-> "highlight_alerts", val |-> HighlightAlerts(input.df, thr)]
  /\ Frame

CallPageAnalysis(w, genPdf) ==
  /\ output = Idle
  /\ output' = [fn |-> "page_analysis", w |-> w,
                val |-> PageAnalysis(input.df, thr, w.choice, w.start, w.end, w.now, genPdf)]
  /\ Frame

\* stored timestamps: 00:00:00, 23:59:59 and the last tick of a day
StoredTimes == {d * Day + o : d \in 0..MaxDay, o \in {0, Day - TicksPerSec, Day - 1}}

FilterRows ==
  {Row(ts, Num(90), Num(90), Num(90)) : ts \in {Iso(t) : t \in StoredTimes} \cup {Text, None}}

FilterDbs ==
  {NoFile, Table({"cpu", "memory", "disk"},
                 <<[c \in {"cpu", "memory", "disk"} |-> Num(90)]>>)}
  \cup {Table({"timestamp", "cpu", "memory", "disk"}, rows) :
          rows \in SeqsUpTo(FilterRows, MaxRows)}

FilterInit == FunctionInit(FilterDbs, {Defaults})
FilterNext == \E w \in WindowInputs(input.df) : CallTimeFilter(w)
SpecFilter == FilterInit /\ [][FilterNext]_vars

StatsRow(cols, cpu, memory) ==
  [c \in cols |->
     CASE c = "id" -> Num(100) [] c = "cpu" -> cpu [] c = "memory" -> memory
       [] c = "disk" -> Num(90)]

StatsSchemas == {{"id", "cpu", "memory", "disk"}, {"id", "cpu", "memory"}}

\* readings 90, 50, 85 of cpu
ExampleTable ==
  Table({"cpu"}, <<[c \in {"cpu"} |-> Num(90)], [c \in {"cpu"} |-> Num(50)],
                   [c \in {"cpu"} |-> Num(85)]>>)

StatsDbs ==
  {NoTable, ExampleTable}
  \cup UNION {{Table(cols, rows) :
                 rows \in SeqsUpTo({StatsRow(cols, cpu, memory) :
                                      cpu \in {Num(80), Num(90), None, Text},
                                      memory \in {Num(90), None}}, MaxRows)} :
              cols \in StatsSchemas}

ThrSamples == {Defaults, [cpu |-> 90, memory |-> 90, disk |-> 80]}

StatsInit == FunctionInit(StatsDbs, ThrSamples)
StatsNext ==
  \/ CallStatsFor
  \/ CallHighlightAlerts
  \/ \E w \in WindowInputs(input.df), genPdf \in BOOLEAN : CallPageAnalysis(w, genPdf)
SpecStats == StatsInit /\ [][StatsNext]_vars

-----------------------------------------------------------------------------
(* pdf_bytes.  A str is a sequence of characters; bytes are a TLA+ string,  *)
(* one character per byte.                                                 *)

StartY == 760
LineHeight == 14

Euro == "U+20AC"   \* one character that Latin-1 cannot encode
Latin1 == {"A", "b", "c", "(", ")", "\\"}

Digit(d) == SubSeq("0123456789", d + 1, d + 1)

\* str(n), "%d" % n and f"{n}" of an integer
RECURSIVE Str(_)
Str(n) ==
  IF n < 0 THEN "-" \o Str(0 - n)
  ELSE IF n < 10 THEN Digit(n)
  ELSE Str(n \div 10) \o Digit(n % 10)

RECURSIVE ZeroPad(_, _)
ZeroPad(str, width) == IF Len(str) >= width THEN str ELSE ZeroPad("0" \o str, width)

\* f"{n:010d}" of an offset
Pad10(n) == ZeroPad(Str(n), 10)

\* s.replace(ch, rep)
RECURSIVE Replace(_, _, _)
Replace(str, ch, rep) ==
  IF str = <<>> THEN <<>>
  ELSE (IF Head(str) = ch THEN rep ELSE <<Head(str)>>) \o Replace(Tail(str), ch, rep)

EscBackslashLast(l) ==
  Replace(Replace(Replace(l, "(", <<"\\", "(">>), ")", <<"\\", ")">>), "\\", <<"\\", "\\">>)

\* esc = lambda s: s.replace("\\", "\\\\").replace("(", "\\(").replace(")", "\\)")
Esc(l) ==
  Replace(Replace(Replace(l, "\\", <<"\\", "\\">>), "(", <<"\\", "(">>), ")", <<"\\", ")">>)

\* stream.encode("latin-1") raises a UnicodeEncodeError on any other character
EncodeRaises(lines) ==
  \E i \in 1..Len(lines) : \E j \in 1..Len(lines[i]) : lines[i][j] \notin Latin1

\* the bytes of a str of Latin-1 characters
RECURSIVE Encode(_)
Encode(str) == IF str = <<>> THEN "" ELSE Head(str) \o Encode(Tail(str))

\* f"1 0 0 1 50 {y-i*lh} Tm ({esc(l)}) Tj", i counting from 0
TextOp(i, l) ==
  "1 0 0 1 50 " \o Str(StartY - i * LineHeight) \o " Tm (" \o Encode(Esc(l)) \o ") Tj"

RECURSIVE JoinOps(_, _)
JoinOps(lines, n) ==
  IF n = 0 THEN ""
  ELSE IF n = 1 THEN TextOp(0, lines[1])
  ELSE JoinOps(lines, n - 1) \o " " \o TextOp(n - 1, lines[n])

\* sb: the encoded content stream
Stream(lines) == "BT /F1 12 Tf " \o JoinOps(lines, Len(lines)) \o " ET"

\* o: the header and the five objects
Objects(sb) ==
  << "%PDF-1.4\n",
     "1 0 obj << /Type /Catalog /Pages 2 0 R >> endobj\n",
     "2 0 obj << /Type /Pages /Kids [3 0 R] /Count 1 >> endobj\n",
     "3 0 obj << /Type /Page /Parent 2 0 R /MediaBox [0 0 612 792] "
       \o "/Resources << /Font << /F1 4 0 R >> >> /Contents 5 0 R >> endobj\n",
     "4 0 obj << /Type /Font /Subtype /Type1 /BaseFont /Helvetica >> endobj\n",
     "5 0 obj << /Length " \o Str(Len(sb)) \o " >> stream\n" \o sb \o "\nendstream endobj\n" >>

RECURSIVE Concat(_, _)
Concat(parts, n) == IF n = 0 THEN "" ELSE Concat(parts, n - 1) \o parts[n]

OffsetsAfterAppend(o) == [i \in 1..Len(o) |-> Len(Concat(o, i))]

\* off: for p in o: off.append(len(out)); out += p
Offsets(o) == [i \in 1..Len(o) |-> Len(Concat(o, i - 1))]

RECURSIVE XrefEntries(_, _)
XrefEntries(off, n) ==
  IF n = 1 THEN ""
  ELSE XrefEntries(off, n - 1) \o Pad10(off[n]) \o " 00000 n \n"

PdfBytes(lines) ==
  LET o == Objects(Stream(lines))
      body == Concat(o, Len(o))
      xref_pos == Len(body)
      xref == "xref\n0 6\n0000000000 65535 f \n" \o XrefEntries(Offsets(o), Len(o))
  IN body \o xref \o "trailer << /Size 6 /Root 1 0 R >>\nstartxref\n"
       \o Str(xref_pos) \o "\n%%EOF"

CallPdfBytes ==
  /\ output = Idle
  /\ output' = [fn |-> "pdf_bytes", raised |-> EncodeRaises(input.lines),
                val |-> IF EncodeRaises(input.lines) THEN "" ELSE PdfBytes(input.lines)]
  /\ Frame

Alphabet == Latin1 \cup {Euro}
ExampleLine == <<"A", "(", "b", ")", "\\", "c">>
TitleLine == <<"(", "A", ")">>

\* a number of title lines, then any line of up to MaxLineLen characters
PdfInputs ==
  {<<>>}
  \cup {[i \in 1..k |-> TitleLine] \o <<l>> :
          k \in 0..(MaxLines - 1), l \in SeqsUpTo(Alphabet, MaxLineLen) \cup {ExampleLine}}

PdfInit ==
  /\ logged_in = FALSE
  /\ thr = Defaults
  /\ event = Event("start", FALSE, NoWindow)
  /\ db = NoFile
  /\ cache = [valid |-> FALSE, df |-> EmptyDF]
  /\ view = LoginPage("ok")
  /\ input \in {[lines |-> ls] : ls \in PdfInputs}
  /\ output = Idle

PdfNext == CallPdfBytes
SpecPdf == PdfInit /\ [][PdfNext]_vars

-----------------------------------------------------------------------------
(* Claims on the session *)

\* C1: the thresholds start at cpu=80, memory=85, disk=90, and their values
\* change only in a run in which Save is clicked: a run that renders the
\* Configuration page or moves a slider without Save leaves them unchanged.
C1_ThresholdsChangeOnlyOnSave ==
  /\ thr = [cpu |-> 80, memory |-> 85, disk |-> 90]
  /\ [][thr' # thr => (event'.kind = "config" /\ event'.save)]_vars

-----------------------------------------------------------------------------
(* Claims on the loader and the pages *)

\* C2: when a timestamp or a metric cell of a stored row fails to parse, the
\* loaded table still holds that row with a missing marker in place of the
\* value, and the statistics over such a table complete without a fault.
C2_ParseFailureBecomesMissing ==
  (cache.valid /\ db.file /\ db.table) =>
     /\ Len(cache.df.rows) = Len(db.rows)
     /\ \A i \in 1..Len(db.rows) : \A c \in db.cols :
          db.rows[i][c].k = "text" => IsMissing(cache.df.rows[i][c])
     /\ view.page = "Analysis" => view.state # "exception"

\* The part of C2 that the loader meets: a timestamp that fails to parse
\* becomes NaT and its row stays in the table.
TimestampParseFailureBecomesNaT ==
  (cache.valid /\ db.file /\ db.table) =>
     /\ Len(cache.df.rows) = Len(db.rows)
     /\ \A i \in 1..Len(db.rows) :
          db.rows[i]["timestamp"].k = "text" => cache.df.rows[i]["timestamp"] = NaN

\* C10: on the Log Analysis page, when the time filter yields no row the page
\* shows the empty-result state and nothing else: no statistics, no alert
\* counts, no CSV and no PDF; these come only from a filtered table with rows.
C10_EmptyFilterStops ==
  (view.page = "Analysis" /\ ~IsEmpty(cache.df)) =>
     LET f == TimeFilter(cache.df, event.w.choice, event.w.start, event.w.end, event.w.now)
     IN /\ Len(f.df.rows) = 0 =>
             /\ view.state = "empty_result"
             /\ DOMAIN view = {"page", "state", "label", "rows"}
             /\ view.rows = 0
        /\ view.state = "ok" =>
             /\ Len(f.df.rows) > 0
             /\ Len(view.filtered.rows) > 0
             /\ Len(view.csv.rows) > 0
             /\ view.report.made => view.report.rows > 0

C10_Witness ==
  /\ view.page = "Analysis"
  /\ event.w.choice = "7 days"
  /\ Len(cache.df.rows) = MaxRows
  /\ \E i \in RowsOf(cache.df) : cache.df.rows[i]["timestamp"].k = "num"
  /\ view.state = "empty_result"

-----------------------------------------------------------------------------
(* Claims on time_filter_ui *)

ValidTs(df) == {i \in RowsOf(df) : df.rows[i]["timestamp"].k = "num"}

\* the rows of out are the rows of df whose index is in S, and as many
ExactlyRows(df, out, S) ==
  /\ out.cols = df.cols
  /\ \A i \in RowsOf(df) : i \in S <=> \E j \in RowsOf(out) : out.rows[j] = df.rows[i]
  /\ Len(out.rows) = Cardinality(S)

LastSecond == (23 * 3600 + 59 * 60 + 59) * TicksPerSec

\* C3: for Custom(start, end) on a table with a valid timestamp, the rows
\* returned are exactly those with start 00:00:00 <= timestamp <= end 23:59:59;
\* rows without a timestamp are not returned.
C3_CustomWindowClosedInterval ==
  (/\ output.fn = "time_filter_ui"
   /\ output.w.choice = "Custom"
   /\ "timestamp" \in input.df.cols
   /\ ValidTs(input.df) # {}) =>
     /\ ExactlyRows(input.df, output.val.df,
                    {i \in ValidTs(input.df) :
                       /\ output.w.start * Day <= input.df.rows[i]["timestamp"].v
                       /\ input.df.rows[i]["timestamp"].v <= output.w.end * Day + LastSecond})
     /\ output.val.label = Label("Custom", output.w.start, output.w.end)

\* a row at start 00:00:00 and a row at end 23:59:59 are returned, a row at
\* end+1 day 00:00:00 is not
C3_Witness ==
  /\ output.fn = "time_filter_ui"
  /\ output.w.choice = "Custom"
  /\ Len(input.df.rows) = 3
  /\ input.df.rows[1]["timestamp"] = Num(output.w.start * Day)
  /\ input.df.rows[2]["timestamp"] = Num(output.w.end * Day + LastSecond)
  /\ input.df.rows[3]["timestamp"] = Num((output.w.end + 1) * Day)
  /\ output.val.df.rows = <<input.df.rows[1], input.df.rows[2]>>

\* C4: for LastNDays(n) at time now, every row returned has
\* timestamp >= now - n days, every row with a valid timestamp that is not
\* returned has timestamp < now - n days, and no row without a timestamp is
\* returned.
C4_LastNDaysCutoff ==
  (/\ output.fn = "time_filter_ui"
   /\ output.w.choice \in {"7 days", "14 days", "30 days", "90 days"}) =>
     LET n == CASE output.w.choice = "7 days" -> 7 [] output.w.choice = "14 days" -> 14
                [] output.w.choice = "30 days" -> 30 [] output.w.choice = "90 days" -> 90
         limit == output.w.now - n * SecondsPerDay * TicksPerSec
     IN /\ ExactlyRows(input.df, output.val.df,
                       {i \in ValidTs(input.df) : input.df.rows[i]["timestamp"].v >= limit})
        /\ \A i \in ValidTs(input.df) :
              (\A j \in RowsOf(output.val.df) : output.val.df.rows[j] # input.df.rows[i])
                 => input.df.rows[i]["timestamp"].v < limit
        /\ \A j \in RowsOf(output.val.df) :
              /\ ~IsMissing(output.val.df.rows[j]["timestamp"])
              /\ output.val.df.rows[j]["timestamp"].v >= limit
        /\ output.val.label = Label("Last days", n, 0)

\* a row exactly at the cutoff is returned, an older row and a row without a
\* timestamp are not
C4_Witness ==
  /\ output.fn = "time_filter_ui"
  /\ output.w.choice = "7 days"
  /\ Len(input.df.rows) = 3
  /\ input.df.rows[1]["timestamp"] = NaN
  /\ input.df.rows[2]["timestamp"] = Num(output.w.now - 7 * Day)
  /\ input.df.rows[3]["timestamp"].k = "num"
  /\ input.df.rows[3]["timestamp"].v < output.w.now - 7 * Day
  /\ output.val.df.rows = <<input.df.rows[2]>>

-----------------------------------------------------------------------------
(* Claims on stats_for, the alert counts and highlight_alerts *)

\* the rows of df that hold a number in column k
Present(df, k) == {i \in RowsOf(df) : df.rows[i][k].k = "num"}

RECURSIVE SumOver(_, _, _)
SumOver(S, df, k) ==
  IF S = {} THEN 0
  ELSE LET i == CHOOSE x \in S : TRUE IN df.rows[i][k].v + SumOver(S \ {i}, df, k)

\* C5: for each metric, stats_for gives (0.0, 0.0, 0.0) on a table without
\* rows or without the metric's column; otherwise the mean, max and min of
\* the values present in the column, the mean's denominator being the number
\* of values present (all three are NaN when no value is present).
C5_StatsOverPresentValues ==
  (output.fn = "stats_for" /\ ~output.raised) =>
     \A k \in {"cpu", "memory", "disk"} :
        LET df == input.df
            s == output.val[k]
            P == IF k \in df.cols THEN Present(df, k) ELSE {}
        IN IF k \notin df.cols \/ Len(df.rows) = 0
           THEN s = <<Float(0, 1), Float(0, 1), Float(0, 1)>>
           ELSE IF P = {} THEN s = <<FloatNaN, FloatNaN, FloatNaN>>
           ELSE /\ s[1].k = "num"
                /\ s[1].n * Cardinality(P) = s[1].d * SumOver(P, df, k)
                /\ \E i \in P : s[2] = Float(df.rows[i][k].v, 1)
                /\ \A i \in P : df.rows[i][k].v <= s[2].n
                /\ \E i \in P : s[3] = Float(df.rows[i][k].v, 1)
                /\ \A i \in P : df.rows[i][k].v >= s[3].n

\* a column with a value and a missing cell: the mean is the value itself;
\* and a column that the table lacks
C5_Witness ==
  /\ output.fn = "stats_for"
  /\ ~output.raised
  /\ Len(input.df.rows) = 2
  /\ "disk" \notin input.df.cols
  /\ output.val["disk"] = <<Zero, Zero, Zero>>
  /\ IsMissing(input.df.rows[1]["memory"])
  /\ input.df.rows[2]["memory"] = Num(90)
  /\ output.val["memory"][1] = Float(90, 1)
  /\ input.df.rows[1]["cpu"] = Num(80)
  /\ input.df.rows[2]["cpu"] = Num(90)
  /\ output.val["cpu"] = <<Float(85, 1), Float(90, 1), Float(80, 1)>>

\* the readings 90, 50, 85 with the threshold 80: mean 75.0, max 90.0,
\* min 50.0, and two alerts
ExampleStats ==
  /\ (output.fn = "stats_for" /\ input.df = LoadDf(ExampleTable)) =>
        output.val["cpu"] = <<Float(75, 1), Float(90, 1), Float(50, 1)>>
  /\ (output.fn = "page_analysis" /\ input.df = LoadDf(ExampleTable) /\ thr["cpu"] = 80) =>
        output.val.alerts["cpu"] = 2

C5_WitnessNoRows ==
  /\ output.fn = "stats_for"
  /\ Len(input.df.rows) = 0
  /\ output.val["cpu"] = <<Zero, Zero, Zero>>

\* C6: for each metric, the alert count shown in the Overview tab and written
\* to the PDF report is the number of rows of the filtered table whose value
\* is strictly greater than the metric's threshold, each metric on its own;
\* it is 0 when the column is absent; rows with a value equal to the
\* threshold or with a missing value are not counted.
C6_AlertCountStrictlyGreater ==
  (output.fn = "page_analysis" /\ output.val.state = "ok") =>
     \A k \in {"cpu", "memory", "disk"} :
        LET df == output.val.filtered
            n == IF k \in df.cols
                 THEN Cardinality({i \in Present(df, k) : df.rows[i][k].v > thr[k]})
                 ELSE 0
        IN /\ output.val.alerts[k] = n
           /\ output.val.report.made => output.val.report.alerts[k] = n

\* cpu has one value above and one equal to its threshold, memory a missing
\* value, and the table has no disk column; the report is made
C6_Witness ==
  /\ output.fn = "page_analysis"
  /\ output.val.state = "ok"
  /\ output.val.report.made
  /\ "disk" \notin output.val.filtered.cols
  /\ \E i \in RowsOf(output.val.filtered) : output.val.filtered.rows[i]["cpu"] = Num(thr["cpu"])
  /\ \E i \in RowsOf(output.val.filtered) : IsMissing(output.val.filtered.rows[i]["memory"])
  /\ output.val.alerts = [cpu |-> 1, memory |-> 1, disk |-> 0]
  /\ output.val.report.alerts = [cpu |-> 1, memory |-> 1, disk |-> 0]

\* C7: highlight_alerts flags a cell iff its column is cpu, memory or disk and
\* its value is a number strictly greater than the column's threshold: a
\* value equal to the threshold, a missing value and a text are not flagged
\* (and raise nothing), and no other column is flagged.
C7_HighlightStrictlyGreater ==
  output.fn = "highlight_alerts" =>
     /\ DOMAIN output.val = RowsOf(input.df)
     /\ \A i \in RowsOf(input.df) :
           /\ DOMAIN output.val[i] = input.df.cols
           /\ \A c \in input.df.cols :
                 /\ output.val[i][c] \in {AlertStyle, NoStyle}
                 /\ output.val[i][c] = AlertStyle <=>
                       /\ c \in {"cpu", "memory", "disk"}
                       /\ input.df.rows[i][c].k = "num"
                       /\ input.df.rows[i][c].v > thr[c]

\* a row with cpu equal to its threshold (not flagged), memory above its
\* threshold (flagged) and id above every threshold (not flagged), after a
\* row with a text in cpu (not flagged)
C7_Witness ==
  /\ output.fn = "highlight_alerts"
  /\ Len(input.df.rows) = 2
  /\ input.df.rows[1]["cpu"] = Text
  /\ output.val[1]["cpu"] = NoStyle
  /\ input.df.rows[2]["cpu"] = Num(thr["cpu"])
  /\ output.val[2]["cpu"] = NoStyle
  /\ input.df.rows[2]["memory"].k = "num"
  /\ output.val[2]["memory"] = AlertStyle
  /\ input.df.rows[2]["id"].v > thr["cpu"]
  /\ output.val[2]["id"] = NoStyle

-----------------------------------------------------------------------------
(* Claims on pdf_bytes.  The document is read back the way a PDF reader    *)
(* reads it: the number after startxref, the table at that offset, the     *)
(* objects at the offsets of its entries.                                  *)

IsDigit(c) == \E d \in 0..9 : Digit(d) = c
DigitVal(c) == CHOOSE d \in 0..9 : Digit(d) = c

RECURSIVE ToInt(_)
ToInt(str) ==
  IF Len(str) = 0 THEN 0
  ELSE 10 * ToInt(SubSeq(str, 1, Len(str) - 1)) + DigitVal(SubSeq(str, Len(str), Len(str)))

\* the first position of the run of digits that ends at position i
RECURSIVE DigitsFrom(_, _)
DigitsFrom(doc, i) ==
  IF i >= 1 /\ IsDigit(SubSeq(doc, i, i)) THEN DigitsFrom(doc, i - 1) ELSE i + 1

At(doc, offset, text) == SubSeq(doc, offset + 1, offset + Len(text)) = text

EofMark == "\n%%EOF"
StartXrefAt(doc) == DigitsFrom(doc, Len(doc) - Len(EofMark))
StartXref(doc) == ToInt(SubSeq(doc, StartXrefAt(doc), Len(doc) - Len(EofMark)))

XrefHead == "xref\n0 6\n"
EntryLen == Len("0000000000 65535 f \n")
XrefEntry(doc, i) ==
  ToInt(SubSeq(doc, StartXref(doc) + Len(XrefHead) + EntryLen * i + 1,
                    StartXref(doc) + Len(XrefHead) + EntryLen * i + 10))

\* C8: in the document that pdf_bytes returns, the cross-reference entries of
\* the objects 1..5 are the byte offsets at which "N 0 obj" begins, after the
\* header, and the number after startxref is the byte offset of the keyword
\* xref of the table.
C8_XrefOffsetsExact ==
  (output.fn = "pdf_bytes" /\ ~output.raised) =>
     LET doc == output.val IN
     /\ At(doc, 0, "%PDF-1.4\n")
     /\ At(doc, Len(doc) - Len(EofMark), EofMark)
     /\ At(doc, StartXrefAt(doc) - 1 - Len("startxref\n"), "startxref\n")
     /\ At(doc, StartXref(doc), XrefHead)
     /\ At(doc, StartXref(doc) - 1, "\n")
     /\ \A i \in 1..5 :
           /\ At(doc, XrefEntry(doc, i), Str(i) \o " 0 obj")
           /\ At(doc, XrefEntry(doc, i) - 1, "\n")
           /\ At(doc, StartXref(doc) + Len(XrefHead) + EntryLen * i + 10, " 00000 n \n")
     /\ XrefEntry(doc, 1) = Len("%PDF-1.4\n")

\* a document of two lines, the second with characters that are escaped
C8_Witness ==
  /\ output.fn = "pdf_bytes"
  /\ ~output.raised
  /\ Len(input.lines) = 2
  /\ input.lines[2] = <<"(", "\\">>
  /\ XrefEntry(output.val, 5) > XrefEntry(output.val, 4)
  /\ StartXref(output.val) > XrefEntry(output.val, 5) + Len(Stream(input.lines))

\* The literal that starts at position i (after the opening parenthesis),
\* read as a PDF reader reads it: a backslash makes the next byte literal,
\* a bare closing parenthesis ends the string.
RECURSIVE ReadLiteral(_, _)
ReadLiteral(doc, i) ==
  LET c == SubSeq(doc, i, i) IN
  IF i > Len(doc) \/ c = ")" THEN [str |-> <<>>, raw |-> "", next |-> i + 1]
  ELSE IF c = "\\"
  THEN LET r == ReadLiteral(doc, i + 2)
       IN [str |-> <<SubSeq(doc, i + 1, i + 1)>> \o r.str,
           raw |-> SubSeq(doc, i, i + 1) \o r.raw, next |-> r.next]
  ELSE LET r == ReadLiteral(doc, i + 1)
       IN [str |-> <<c>> \o r.str, raw |-> c \o r.raw, next |-> r.next]

\* the literals of the text operators of the content stream, in order
RECURSIVE Literals(_, _, _)
Literals(doc, i, n) ==
  IF n = 0 THEN <<>>
  ELSE LET open == CHOOSE j \in i..Len(doc) :
                     /\ SubSeq(doc, j, j + 4) = " Tm ("
                     /\ \A h \in i..(j - 1) : SubSeq(doc, h, h + 4) # " Tm ("
           r == ReadLiteral(doc, open + 5)
       IN <<r>> \o Literals(doc, r.next, n - 1)

\* the claim's escaping, character by character
RECURSIVE EscapeEach(_)
EscapeEach(l) ==
  IF l = <<>> THEN ""
  ELSE (IF Head(l) \in {"\\", "(", ")"} THEN "\\" \o Head(l) ELSE Head(l)) \o EscapeEach(Tail(l))

\* C9: in the document that pdf_bytes returns, every line is embedded in the
\* content stream with each backslash doubled and each parenthesis preceded
\* by one backslash (the backslashes that escape parentheses are not
\* doubled), so that reading the literal back gives the line.
C9_EscapeRoundTrip ==
  (output.fn = "pdf_bytes" /\ ~output.raised) =>
     LET lits == Literals(output.val, 1, Len(input.lines)) IN
     \A i \in 1..Len(input.lines) :
        /\ lits[i].raw = EscapeEach(input.lines[i])
        /\ lits[i].str = input.lines[i]
        /\ At(output.val, lits[i].next - 1, " Tj")

\* the line A(b)\c is embedded as A\(b\)\\c
C9_Witness ==
  /\ output.fn = "pdf_bytes"
  /\ ~output.raised
  /\ Len(input.lines) = 2
  /\ input.lines[2] = <<"A", "(", "b", ")", "\\", "c">>
  /\ \E p \in 1..Len(output.val) : At(output.val, p, "(A\\(b\\)\\\\c) Tj")

====
